---------------------------- MODULE Spec2Model ----------------------------
(***************************************************************************)
(* State-machine model of visionflow.pipeline.Pipeline                     *)
(* (src/visionflow/pipeline.py) and of visionflow.core.image's             *)
(* VisionFlowImage (src/visionflow/core/image.py, introduced further       *)
(* down).                                                                  *)
(*                                                                         *)
(* An image is one pixel value in 0..MaxPix.  Image objects have identity: *)
(* during one call the objects live in a call-local heap (a sequence of    *)
(* pixel values, an object reference being an index into it), so that      *)
(* Image.copy(), a transform that returns a new image and a transform that *)
(* changes the image it is given in place are three different things.      *)
(* The snapshot map stores copies that no transform ever receives, so the  *)
(* pipeline state keeps their pixel values only.                           *)
(*                                                                         *)
(* Python indices are kept: operation i of the code is operations[i + 1]   *)
(* here, snapshot keys are the code's own keys 0, 1, 2, ...                *)
(***************************************************************************)
EXTENDS Integers, Sequences, FiniteSets

(***************************************************************************)
(* Bounds of the model.                                                    *)
(***************************************************************************)
\* add_operation and insert_operation grow the list up to this length
MaxOps == 2
\* pixel values are 0..MaxPix
MaxPix == 1

Pix == 0 .. MaxPix
\* add_layer grows the layer stack up to this height
MaxLayers == 3
\* calls that record in processing_history are made up to this length
MaxHistory == 3
\* layers added with an opacity and a blend mode of their own
MaxBlendLayers == 1

\* Python's None / an image value, as a sequence of length 0 / 1
None == << >>
Some(v) == << v >>

Max(a, b) == IF a >= b THEN a ELSE b
Min(a, b) == IF a <= b THEN a ELSE b

(***************************************************************************)
(* The collaborators: transforms (image, **params) -> image.               *)
(*   adjust_contrast  returns a new image and leaves its argument alone    *)
(*   inplace_filter   changes the image it is given and returns it; it     *)
(*                    rejects amount = 0 by raising (parameters are not    *)
(*                    validated before execution time)                     *)
(***************************************************************************)
Functions == {"adjust_contrast", "inplace_filter"}

\* pixel arithmetic of the two transforms that return
contrast_value(v, params) == (v + params.amount) % (MaxPix + 1)
inplace_value(v, params) == (v * params.amount) % (MaxPix + 1)

\* self.function(image, **self.params) on heap h, image object r:
\* the heap after the call, the object returned, whether it raised
call_function(function, params, h, r) ==
    CASE function = "adjust_contrast" ->
            [heap |-> Append(h, contrast_value(h[r], params)),
             ref |-> Len(h) + 1, raised |-> FALSE]
      [] function = "inplace_filter" /\ params.amount # 0 ->
            [heap |-> [h EXCEPT ![r] = inplace_value(h[r], params)],
             ref |-> r, raised |-> FALSE]
      [] OTHER ->
            [heap |-> h, ref |-> r, raised |-> TRUE]

\* PipelineOperation.execute (result_image, a field nothing reads, is left out)
operation_execute(operation, h, r) ==
    call_function(operation.function, operation.params, h, r)

\* Faulty variant of image_copy: hands back the object itself.
image_copy_alias(h, r) == [heap |-> h, ref |-> r]

\* Image.copy(): a new object with the same pixels
image_copy(h, r) == [heap |-> Append(h, h[r]), ref |-> Len(h) + 1]

\* PipelineOperation(name, function, params)
PipelineOperation(n, function, params) ==
    [name |-> n, function |-> function, params |-> params]

\* self.snapshots[k] = image
snapshot_store(snaps, k, v) ==
    [j \in (DOMAIN snaps) \cup {k} |-> IF j = k THEN v ELSE snaps[j]]


\* the pixel value a snapshot keeps: current_image.copy() is an object of
\* its own, which no transform is ever handed
snapshot_copy(h, r) == LET c == image_copy(h, r) IN c.heap[c.ref]

(***************************************************************************)
(* Pipeline methods, as functions of the fields they read.  Each returns   *)
(* the fields it writes and what the caller sees.                          *)
(***************************************************************************)

\* Pipeline.add_operation: the operation list after the append
add_operation(ops, n, function, params) ==
    Append(ops, PipelineOperation(n, function, params))

\* the for loop of Pipeline.execute from Python index i on
RECURSIVE execute_loop(_, _, _, _, _, _)
execute_loop(ops, i, h, cur, snaps, save_snapshots) ==
    IF i >= Len(ops)
    THEN [raised |-> FALSE, heap |-> h, ref |-> cur, snapshots |-> snaps,
          invoked |-> i]
    ELSE LET r == operation_execute(ops[i + 1], h, cur) IN
         IF r.raised
         THEN [raised |-> TRUE, heap |-> r.heap, ref |-> cur,
               snapshots |-> snaps, invoked |-> i + 1]
         ELSE execute_loop(ops, i + 1, r.heap, r.ref,
                           IF save_snapshots
                           THEN snapshot_store(snaps, i + 1,
                                               snapshot_copy(r.heap, r.ref))
                           ELSE snaps,
                           save_snapshots)

\* Faulty variant of execute: the input is not stored as snapshot 0.
execute_skip_initial(ops, snaps, h, image, save_snapshots) ==
    LET c == image_copy(h, image)
    IN execute_loop(ops, 0, c.heap, c.ref, snaps, save_snapshots)

\* Pipeline.execute(image, save_snapshots); image is object `image` of heap h
execute(ops, snaps, h, image, save_snapshots) ==
    LET c == image_copy(h, image)
        s0 == IF save_snapshots
              THEN snapshot_store(snaps, 0, snapshot_copy(c.heap, c.ref))
              ELSE snaps
    IN execute_loop(ops, 0, c.heap, c.ref, s0, save_snapshots)

\* Pipeline.execute up to its loop: the copy of the input and, when
\* snapshots are kept, the write of snapshot 0 into the map of self
execute_begin(snaps, image, save_snapshots) ==
    LET c == image_copy(<< image >>, 1)
    IN [current |-> c.heap[c.ref],
        snapshots |-> IF save_snapshots
                      THEN snapshot_store(snaps, 0,
                                          snapshot_copy(c.heap, c.ref))
                      ELSE snaps]

\* Faulty variant of execute_step: the snapshot is stored under key i.
execute_step_low_key(operation, i, current, snaps, save_snapshots) ==
    LET r == operation_execute(operation, << current >>, 1)
    IN IF r.raised
       THEN [raised |-> TRUE, current |-> current, snapshots |-> snaps]
       ELSE [raised |-> FALSE, current |-> r.heap[r.ref],
             snapshots |-> IF save_snapshots
                           THEN snapshot_store(snaps, i,
                                               snapshot_copy(r.heap, r.ref))
                           ELSE snaps]

\* one pass of the loop of Pipeline.execute, for Python index i:
\* current_image is the thread's own object, the map is the one of self
execute_step(operation, i, current, snaps, save_snapshots) ==
    LET r == operation_execute(operation, << current >>, 1)
    IN IF r.raised
       THEN [raised |-> TRUE, current |-> current, snapshots |-> snaps]
       ELSE [raised |-> FALSE, current |-> r.heap[r.ref],
             snapshots |-> IF save_snapshots
                           THEN snapshot_store(snaps, i + 1,
                                               snapshot_copy(r.heap, r.ref))
                           ELSE snaps]

\* Faulty variant of self_snapshots: one map for every Pipeline.
class_snapshots(insts, k, snaps) ==
    [insts EXCEPT ![1].snapshots = snaps]

\* self.snapshots of Pipeline k: each instance has the map its __init__ made
self_snapshots(insts, k, snaps) ==
    [insts EXCEPT ![k].snapshots = snaps]

\* Faulty variant of partial_loop: breaks at i > up_to_step, one step late.
RECURSIVE partial_loop_inclusive(_, _, _, _, _)
partial_loop_inclusive(ops, i, h, cur, up_to_step) ==
    IF i >= Len(ops) \/ i > up_to_step
    THEN [raised |-> FALSE, heap |-> h, ref |-> cur, invoked |-> i]
    ELSE LET r == operation_execute(ops[i + 1], h, cur) IN
         IF r.raised
         THEN [raised |-> TRUE, heap |-> r.heap, ref |-> cur,
               invoked |-> i + 1]
         ELSE partial_loop_inclusive(ops, i + 1, r.heap, r.ref, up_to_step)

\* the for loop of Pipeline.execute_partial from Python index i on
RECURSIVE partial_loop(_, _, _, _, _)
partial_loop(ops, i, h, cur, up_to_step) ==
    IF i >= Len(ops) \/ i >= up_to_step
    THEN [raised |-> FALSE, heap |-> h, ref |-> cur, invoked |-> i]
    ELSE LET r == operation_execute(ops[i + 1], h, cur) IN
         IF r.raised
         THEN [raised |-> TRUE, heap |-> r.heap, ref |-> cur,
               invoked |-> i + 1]
         ELSE partial_loop(ops, i + 1, r.heap, r.ref, up_to_step)

\* Faulty variant of execute_partial: stores the input as snapshot 0, as
\* execute does.
execute_partial_snapshot(ops, snaps, h, image, up_to_step) ==
    LET c == image_copy(h, image)
        r == partial_loop(ops, 0, c.heap, c.ref, up_to_step)
    IN [raised |-> r.raised, heap |-> r.heap, ref |-> r.ref,
        snapshots |-> snapshot_store(snaps, 0, snapshot_copy(c.heap, c.ref)),
        invoked |-> r.invoked]

\* Faulty variant of execute_partial: runs self.operations[:up_to_step], a
\* slice, which counts a negative up_to_step from the end of the list.
execute_partial_slice(ops, snaps, h, image, up_to_step) ==
    LET c == image_copy(h, image)
        stop == IF up_to_step < 0 THEN Max(0, Len(ops) + up_to_step)
                ELSE up_to_step
        r == partial_loop(ops, 0, c.heap, c.ref, stop)
    IN [raised |-> r.raised, heap |-> r.heap, ref |-> r.ref,
        snapshots |-> snaps, invoked |-> r.invoked]

\* Pipeline.execute_partial(image, up_to_step)
execute_partial(ops, snaps, h, image, up_to_step) ==
    LET c == image_copy(h, image)
        r == partial_loop(ops, 0, c.heap, c.ref, up_to_step)
    IN [raised |-> r.raised, heap |-> r.heap, ref |-> r.ref,
        snapshots |-> snaps, invoked |-> r.invoked]

\* list.pop(index) for an index in range: ops without element index
list_pop(ops, index) ==
    [j \in 1 .. (Len(ops) - 1) |-> IF j <= index THEN ops[j] ELSE ops[j + 1]]

\* Faulty variant of remove_operation: hands a negative index to list.pop,
\* which counts it from the end.
remove_operation_from_end(ops, index) ==
    IF 0 <= index /\ index < Len(ops) THEN list_pop(ops, index)
    ELSE IF index < 0 /\ 0 - index <= Len(ops)
         THEN list_pop(ops, Len(ops) + index)
    ELSE ops

\* Pipeline.remove_operation(index)
remove_operation(ops, index) ==
    IF 0 <= index /\ index < Len(ops) THEN list_pop(ops, index) ELSE ops

\* Faulty variant of list.insert: x goes behind the element at index.
list_insert_behind(ops, index, x) ==
    LET pos == IF index < 0 THEN Max(0, Len(ops) + index)
               ELSE Min(index + 1, Len(ops))
    IN [j \in 1 .. (Len(ops) + 1) |->
            IF j <= pos THEN ops[j]
            ELSE IF j = pos + 1 THEN x ELSE ops[j - 1]]

\* list.insert(index, x): a negative index counts from the end, and the
\* position is clamped to 0..len
list_insert(ops, index, x) ==
    LET pos == IF index < 0 THEN Max(0, Len(ops) + index)
               ELSE Min(index, Len(ops))
    IN [j \in 1 .. (Len(ops) + 1) |->
            IF j <= pos THEN ops[j]
            ELSE IF j = pos + 1 THEN x ELSE ops[j - 1]]

\* Faulty variant of insert_operation: an index outside 0..len is ignored,
\* the way remove_operation ignores one.
insert_operation_in_range(ops, index, n, function, params) ==
    IF 0 <= index /\ index <= Len(ops)
    THEN list_insert(ops, index, PipelineOperation(n, function, params))
    ELSE ops

\* Pipeline.insert_operation(index, name, function, params)
insert_operation(ops, index, n, function, params) ==
    list_insert(ops, index, PipelineOperation(n, function, params))

\* list.clear() and dict.clear()
list_clear(ops) == << >>
dict_clear(d) == << >>

\* Faulty variant of clear_operations: forgets the snapshots.
clear_operations_keep_snapshots(ops, snaps) ==
    [operations |-> list_clear(ops), snapshots |-> snaps]

\* Pipeline.clear_operations()
clear_operations(ops, snaps) ==
    [operations |-> list_clear(ops), snapshots |-> dict_clear(snaps)]

\* Pipeline.get_snapshot(step): self.snapshots.get(step)
get_snapshot(snaps, step) ==
    IF step \in DOMAIN snaps THEN Some(snaps[step]) ELSE None

\* Pipeline.get_operation_list()
get_operation_list(ops) ==
    [j \in 1 .. Len(ops) |-> [name |-> ops[j].name, params |-> ops[j].params]]

\* Faulty variant of save_pipeline: writes the default name.
save_pipeline_default_name(self_name, ops) ==
    [name |-> "Untitled Pipeline",
     operations |->
        [j \in 1 .. Len(ops) |->
            [name |-> ops[j].name, params |-> ops[j].params]]]

\* Pipeline.save_pipeline()
save_pipeline(self_name, ops) ==
    [name |-> self_name,
     operations |->
        [j \in 1 .. Len(ops) |->
            [name |-> ops[j].name, params |-> ops[j].params]]]

\* dict.get(key, default)
dict_get(d, key, default) == IF key \in DOMAIN d THEN d[key] ELSE default

\* Faulty variant of load_loop: stops at the first name the registry lacks.
RECURSIVE load_loop_break(_, _, _, _)
load_loop_break(ops, entries, j, function_registry) ==
    IF j > Len(entries) THEN ops
    ELSE LET n == entries[j].name
             params == entries[j].params
         IN IF n \in DOMAIN function_registry
            THEN load_loop_break(
                    add_operation(ops, n, function_registry[n], params),
                    entries, j + 1, function_registry)
            ELSE ops

\* the for loop of Pipeline.load_pipeline from config entry j (1-based) on
RECURSIVE load_loop(_, _, _, _)
load_loop(ops, entries, j, function_registry) ==
    IF j > Len(entries) THEN ops
    ELSE LET n == entries[j].name
             params == entries[j].params
         IN load_loop(IF n \in DOMAIN function_registry
                      THEN add_operation(ops, n, function_registry[n], params)
                      ELSE ops,
                      entries, j + 1, function_registry)

\* Faulty variant of load_pipeline: the list is not cleared first.
load_pipeline_keep(self_name, ops, config, function_registry) ==
    [name |-> dict_get(config, "name", "Untitled Pipeline"),
     operations |-> load_loop(ops, dict_get(config, "operations", << >>),
                              1, function_registry)]

\* Pipeline.load_pipeline(config, function_registry)
load_pipeline(self_name, ops, config, function_registry) ==
    [name |-> dict_get(config, "name", "Untitled Pipeline"),
     operations |-> load_loop(list_clear(ops),
                              dict_get(config, "operations", << >>),
                              1, function_registry)]

(***************************************************************************)
(* visionflow.core.image: ImageLayer and VisionFlowImage                   *)
(* (src/visionflow/core/image.py).                                         *)
(*                                                                         *)
(* An image is one channel value in 0..255 and an image object is a        *)
(* reference into the heap, as above; here the heap outlives the calls,    *)
(* because a composite keeps the objects it is given.  An opacity is a     *)
(* fraction [num, den]; the blends are computed exactly and cut to an      *)
(* integer the way astype(np.uint8) cuts a float.                          *)
(***************************************************************************)
Rat(n, d) == [num |-> n, den |-> d]

\* ImageLayer.__init__(image, name, opacity, blend_mode)
ImageLayer(image, n, opacity, blend_mode) ==
    [image |-> image, name |-> n, opacity |-> opacity,
     blend_mode |-> blend_mode, visible |-> TRUE]

\* ImageLayer.copy(): the heap after the call and the layer returned
layer_copy(h, layer) ==
    LET c == image_copy(h, layer.image)
    IN [heap |-> c.heap,
        layer |-> ImageLayer(c.ref, layer.name, layer.opacity,
                             layer.blend_mode)]

\* image.convert('RGB') of an RGB image: a new object with the same pixels
image_convert(h, r) == image_copy(h, r)

\* VisionFlowImage._analyze_image(): what it derives from base_image
analyze_image(h, base) ==
    [width |-> 1, height |-> 1, mode |-> "RGB", mean_brightness |-> h[base]]

\* VisionFlowImage.__init__(image=image)
VisionFlowImage(h, image) ==
    LET b == image_convert(h, image)
        c == image_copy(b.heap, b.ref)
    IN [heap |-> c.heap,
        base_image |-> b.ref,
        layers |-> << ImageLayer(c.ref, "Background", Rat(1, 1), "normal") >>,
        processing_history |-> << >>,
        metadata |-> analyze_image(b.heap, b.ref)]

\* VisionFlowImage.__init__(image_path, image): image_path and image are
\* None or Some(..), file is the pixel the file at image_path holds; the
\* image opened or given is object 1 of the new composite's heap
VisionFlowImage_init(image_path, image, file) ==
    IF image_path # None
    THEN [raised |-> FALSE, self |-> VisionFlowImage(<< file >>, 1)]
    ELSE IF image # None
    THEN [raised |-> FALSE, self |-> VisionFlowImage(<< image[1] >>, 1)]
    ELSE [raised |-> TRUE]

\* Faulty variant of _record_operation: keeps the newest entry only.
record_operation_newest(history, operation, params, lyrs) ==
    << [operation |-> operation, params |-> params,
        layer_count |-> Len(lyrs)] >>

\* VisionFlowImage._record_operation(operation, params), called with the
\* layer list as it is at that moment
record_operation(history, operation, params, lyrs) ==
    Append(history, [operation |-> operation, params |-> params,
                     layer_count |-> Len(lyrs)])

\* Faulty variant of add_layer: the new layer goes to the bottom.
add_layer_bottom(lyrs, history, image, n, opacity, blend_mode) ==
    LET layer == ImageLayer(image, n, opacity, blend_mode)
        grown == << layer >> \o lyrs
    IN [layers |-> grown,
        processing_history |->
            record_operation(history, "add_layer", [name |-> n], grown),
        ret |-> layer]

\* VisionFlowImage.add_layer(image, name, opacity, blend_mode): the layer
\* holds the object it is given
add_layer(lyrs, history, image, n, opacity, blend_mode) ==
    LET layer == ImageLayer(image, n, opacity, blend_mode)
        grown == Append(lyrs, layer)
    IN [layers |-> grown,
        processing_history |->
            record_operation(history, "add_layer", [name |-> n], grown),
        ret |-> layer]

\* Faulty variant of remove_layer: records before it pops.
remove_layer_record_first(lyrs, history, layer_index) ==
    IF 0 <= layer_index /\ layer_index < Len(lyrs)
    THEN [layers |-> list_pop(lyrs, layer_index),
          processing_history |->
              record_operation(history, "remove_layer",
                               [name |-> lyrs[layer_index + 1].name], lyrs)]
    ELSE [layers |-> lyrs, processing_history |-> history]

\* Faulty variant of remove_layer: pops without a history entry.
remove_layer_unrecorded(lyrs, history, layer_index) ==
    IF 0 <= layer_index /\ layer_index < Len(lyrs)
    THEN [layers |-> list_pop(lyrs, layer_index),
          processing_history |-> history]
    ELSE [layers |-> lyrs, processing_history |-> history]

\* VisionFlowImage.remove_layer(layer_index)
remove_layer(lyrs, history, layer_index) ==
    IF 0 <= layer_index /\ layer_index < Len(lyrs)
    THEN LET removed == lyrs[layer_index + 1]
             left == list_pop(lyrs, layer_index)
         IN [layers |-> left,
             processing_history |->
                 record_operation(history, "remove_layer",
                                  [name |-> removed.name], left)]
    ELSE [layers |-> lyrs, processing_history |-> history]

\* VisionFlowImage.get_layer(layer_index)
get_layer(lyrs, layer_index) ==
    IF 0 <= layer_index /\ layer_index < Len(lyrs)
    THEN Some(lyrs[layer_index + 1])
    ELSE None

\* Faulty variant of blend: the layer covers what is below whatever its
\* opacity.
blend_opaque(result_value, layer_value, layer) == Rat(layer_value, 1)

\* Faulty variant of blend: the two weights change places.
blend_swapped(result_value, layer_value, layer) ==
    LET o == layer.opacity
    IN Rat(result_value * o.num + layer_value * (o.den - o.num), o.den)

\* the three branches of flatten's blend, result_value below and layer_value
\* on top, as an exact fraction
blend(result_value, layer_value, layer) ==
    LET o == layer.opacity
    IN IF layer.blend_mode = "normal"
       THEN Rat(result_value * (o.den - o.num) + layer_value * o.num, o.den)
       ELSE IF layer.blend_mode = "multiply"
       THEN Rat(result_value * layer_value * o.num
                    + 255 * result_value * (o.den - o.num),
                255 * o.den)
       ELSE Rat(result_value * (o.den - o.num) + layer_value * o.num, o.den)

\* np.clip(x, lo, hi)
np_clip(x, lo, hi) ==
    IF x.num < lo * x.den THEN Rat(lo, 1)
    ELSE IF x.num > hi * x.den THEN Rat(hi, 1)
    ELSE x

\* astype(np.uint8) of a float that is not negative: the fraction is dropped
astype_uint8(x) == (x.num \div x.den) % 256

\* Image.fromarray(array): a new object
image_fromarray(h, v) == [heap |-> Append(h, v), ref |-> Len(h) + 1]

\* Faulty variant of flatten's loop: the first visible layer is blended onto
\* a black canvas like every other layer.
RECURSIVE flatten_loop_canvas(_, _, _, _)
flatten_loop_canvas(h, lyrs, i, result) ==
    IF i >= Len(lyrs) THEN [heap |-> h, result |-> result]
    ELSE LET layer == lyrs[i + 1]
             below == IF result = None THEN 0 ELSE h[result[1]]
             n == image_fromarray(h,
                      astype_uint8(np_clip(blend(below, h[layer.image], layer),
                                           0, 255)))
         IN IF ~layer.visible THEN flatten_loop_canvas(h, lyrs, i + 1, result)
            ELSE flatten_loop_canvas(n.heap, lyrs, i + 1, Some(n.ref))

\* Faulty variant of flatten's loop: hidden layers are composed as well.
RECURSIVE flatten_loop_all(_, _, _, _)
flatten_loop_all(h, lyrs, i, result) ==
    IF i >= Len(lyrs) THEN [heap |-> h, result |-> result]
    ELSE LET layer == lyrs[i + 1]
         IN IF result = None
            THEN LET c == image_copy(h, layer.image)
                 IN flatten_loop_all(c.heap, lyrs, i + 1, Some(c.ref))
            ELSE LET blended == blend(h[result[1]], h[layer.image], layer)
                     n == image_fromarray(h,
                              astype_uint8(np_clip(blended, 0, 255)))
                 IN flatten_loop_all(n.heap, lyrs, i + 1, Some(n.ref))

\* the loop of flatten from layer i on (0-based); result is None or the
\* image composed so far
RECURSIVE flatten_loop(_, _, _, _)
flatten_loop(h, lyrs, i, result) ==
    IF i >= Len(lyrs) THEN [heap |-> h, result |-> result]
    ELSE LET layer == lyrs[i + 1]
         IN IF ~layer.visible THEN flatten_loop(h, lyrs, i + 1, result)
            ELSE IF result = None
            THEN LET c == image_copy(h, layer.image)
                 IN flatten_loop(c.heap, lyrs, i + 1, Some(c.ref))
            ELSE LET blended == blend(h[result[1]], h[layer.image], layer)
                     n == image_fromarray(h,
                              astype_uint8(np_clip(blended, 0, 255)))
                 IN flatten_loop(n.heap, lyrs, i + 1, Some(n.ref))

\* VisionFlowImage.flatten(): the heap after the call and the object returned
flatten(h, base, lyrs) ==
    IF lyrs = << >> THEN image_copy(h, base)
    ELSE LET r == flatten_loop(h, lyrs, 0, None)
         IN IF r.result # None THEN [heap |-> r.heap, ref |-> r.result[1]]
            ELSE image_copy(r.heap, base)

\* VisionFlowImage.get_metadata(): a copy of the mapping
get_metadata(metadata) == metadata

\* Faulty variant of save: base_image is written whatever flatten says.
save_base_always(h, base, lyrs, history, output_path, do_flatten) ==
    [heap |-> h,
     written |-> h[base],
     processing_history |->
         record_operation(history, "save",
                          [path |-> output_path, flatten |-> do_flatten],
                          lyrs)]

\* VisionFlowImage.save(output_path, flatten): what is written to the path
\* and the history after it
save(h, base, lyrs, history, output_path, do_flatten) ==
    LET f == IF do_flatten THEN flatten(h, base, lyrs)
             ELSE [heap |-> h, ref |-> base]
    IN [heap |-> f.heap,
        written |-> f.heap[f.ref],
        processing_history |->
            record_operation(history, "save",
                             [path |-> output_path, flatten |-> do_flatten],
                             lyrs)]

(***************************************************************************)
(* What the callers of the model pass in.                                  *)
(***************************************************************************)
\* the operations a caller adds: two share a name and differ in params, the
\* second of them raises when it runs
OpChoices ==
    { PipelineOperation("Contrast", "adjust_contrast", [amount |-> 1]),
      PipelineOperation("Filter", "inplace_filter", [amount |-> 2]),
      PipelineOperation("Filter", "inplace_filter", [amount |-> 0]) }

OpNames == {o.name : o \in OpChoices}

\* the registry that knows every name, and the registries that lack some
FullRegistry ==
    [n \in OpNames |-> (CHOOSE o \in OpChoices : o.name = n).function]
Registries == { [n \in S |-> FullRegistry[n]] : S \in SUBSET OpNames }

\* hand-written configurations a caller may hold before any save_pipeline:
\* one without the "name" key, one without the "operations" key
NamelessConfig ==
    [operations |-> << [name |-> "Filter", params |-> [amount |-> 2]],
                       [name |-> "Contrast", params |-> [amount |-> 1]],
                       [name |-> "Filter", params |-> [amount |-> 0]] >>]
HandConfigs == { NamelessConfig, [name |-> "Portrait Retouch"] }

PipelineNames == {"Untitled Pipeline", "Test Pipeline"}

\* indices a caller passes: every in-range one, and out-of-range ones on
\* both sides
Indices == (0 - (MaxOps + 1)) .. (MaxOps + 1)
Steps == (0 - 1) .. (MaxOps + 1)

\* channel values of the images a caller makes
Levels == {0, 128, 255}

\* opacities, blend modes and names a caller gives a layer ("screen" is one
\* of the modes flatten has no branch for)
Opacities == {Rat(0, 1), Rat(1, 2), Rat(1, 1)}
BlendModes == {"normal", "multiply", "screen"}
LayerNames == {"New Layer", "Red Layer"}

\* layer indices a caller passes: every in-range one, -1 and one past the
\* end
LayerIndices == (0 - 1) .. MaxLayers

Paths == {"output.jpg"}

\* the image file a composite is made from
ImagePaths == {"test.jpg"}

(***************************************************************************)
(* State.                                                                  *)
(*   name, operations, snapshots   the fields of one Pipeline              *)
(*   config   the configuration the caller holds (a hand-written one, or   *)
(*            the result of save_pipeline)                                 *)
(*   call     the last call: its arguments and what the caller saw         *)
(* History kept for stating properties (the program does not read it):     *)
(*   saved    what name and get_operation_list() were when config was      *)
(*            saved (None for a hand-written config)                       *)
(*   hist     "adds": only add_operation calls so far; "first_run": those  *)
(*            and then one execute(save_snapshots=True); "other"           *)
(*   run      the input of the last execute(save_snapshots=True) that      *)
(*            returned, while the operation list is still the one it ran   *)
(*                                                                         *)
(* One VisionFlowImage and the image objects alive around it:              *)
(*   heap     the pixels of every image object the caller or the composite *)
(*            holds; object 1 is the image the composite was made from     *)
(*   base_image, layers, processing_history, metadata   the fields of the  *)
(*            composite, base_image and each layer's image being objects   *)
(*            of heap                                                      *)
(***************************************************************************)
VARIABLES name, operations, snapshots, config, call, saved, hist, run,
          heap, base_image, layers, processing_history, metadata,
          instances, threads, interleaved

pipeline_vars == << name, operations, snapshots, config, saved, hist, run >>
image_vars == << heap, base_image, layers, processing_history, metadata >>
thread_vars == << instances, threads, interleaved >>
vars == << pipeline_vars, call, image_vars, thread_vars >>

\* no VisionFlowImage has been made
NoComposite ==
    /\ heap = << >>
    /\ base_image = 0
    /\ layers = << >>
    /\ processing_history = << >>
    /\ metadata = << >>

\* no Pipeline is shared with, or run by, a thread
NoThreads ==
    /\ instances = << >>
    /\ threads = << >>
    /\ interleaved = FALSE

NoRun == [fresh |-> FALSE, image |-> None]

\* run after a call that wrote no snapshot: stale once the list changed
run_after(ops_after) == IF ops_after = operations THEN run ELSE NoRun

\* In the actions the caller's image is object 1 of a heap that holds
\* nothing else; each method is evaluated once per call (r).

\* Pipeline.__init__ with the default name: no operations, no snapshots
Init ==
    /\ name = "Untitled Pipeline"
    /\ operations = << >>
    /\ snapshots = << >>
    /\ config = NamelessConfig
    /\ call = [op |-> "init"]
    /\ saved = None
    /\ hist = "adds"
    /\ run = NoRun
    /\ NoComposite
    /\ NoThreads

AddOperation ==
    /\ Len(operations) < MaxOps
    /\ \E o \in OpChoices :
          operations' = add_operation(operations, o.name, o.function, o.params)
    /\ call' = [op |-> "add_operation"]
    /\ hist' = IF hist = "adds" THEN "adds" ELSE "other"
    /\ run' = NoRun
    /\ UNCHANGED << name, snapshots, config, saved,
                    image_vars, thread_vars >>

Execute ==
    \E image \in Pix, save_snapshots \in BOOLEAN :
    \E r \in {execute(operations, snapshots, << image >>, 1, save_snapshots)} :
          /\ snapshots' = r.snapshots
          /\ call' = [op |-> "execute", image |-> image,
                      save_snapshots |-> save_snapshots,
                      raised |-> r.raised,
                      ret |-> IF r.raised THEN None ELSE Some(r.heap[r.ref]),
                      ret_is_arg |-> (~r.raised /\ r.ref = 1),
                      arg_after |-> r.heap[1],
                      invoked |-> r.invoked]
          /\ hist' = IF hist = "adds" /\ save_snapshots THEN "first_run"
                     ELSE "other"
          /\ run' = IF ~save_snapshots THEN run
                    ELSE IF r.raised THEN NoRun
                    ELSE [fresh |-> TRUE, image |-> Some(image)]
          /\ UNCHANGED << name, operations, config, saved,
                    image_vars, thread_vars >>

ExecutePartial ==
    \E image \in Pix, up_to_step \in Steps :
    \E r \in {execute_partial(operations, snapshots, << image >>, 1,
                             up_to_step)} :
          /\ snapshots' = r.snapshots
          /\ call' = [op |-> "execute_partial", image |-> image,
                      up_to_step |-> up_to_step,
                      raised |-> r.raised,
                      ret |-> IF r.raised THEN None ELSE Some(r.heap[r.ref]),
                      ret_is_arg |-> (~r.raised /\ r.ref = 1),
                      arg_after |-> r.heap[1],
                      invoked |-> r.invoked]
          /\ hist' = "other"
          /\ UNCHANGED << name, operations, config, saved, run,
                    image_vars, thread_vars >>

RemoveOperation ==
    \E index \in Indices :
       /\ operations' = remove_operation(operations, index)
       /\ call' = [op |-> "remove_operation"]
       /\ hist' = "other"
       /\ run' = run_after(operations')
       /\ UNCHANGED << name, snapshots, config, saved,
                    image_vars, thread_vars >>

InsertOperation ==
    /\ Len(operations) < MaxOps
    /\ \E index \in Indices, o \in OpChoices :
          operations' = insert_operation(operations, index, o.name,
                                         o.function, o.params)
    /\ call' = [op |-> "insert_operation"]
    /\ hist' = "other"
    /\ run' = NoRun
    /\ UNCHANGED << name, snapshots, config, saved,
                    image_vars, thread_vars >>

\* remove_operation(index), the index and the length before kept in call
RemoveOperationAt ==
    \E index \in Indices :
       /\ operations' = remove_operation(operations, index)
       /\ call' = [op |-> "remove_operation", index |-> index,
                   held_before |-> Len(operations)]
       /\ hist' = "other"
       /\ run' = run_after(operations')
       /\ UNCHANGED << name, snapshots, config, saved,
                    image_vars, thread_vars >>

\* insert_operation(index, ...), the arguments and the length before kept
\* in call; the list may grow one past MaxOps
InsertOperationAt ==
    /\ Len(operations) <= MaxOps
    /\ \E index \in Indices, o \in OpChoices :
          /\ operations' = insert_operation(operations, index, o.name,
                                            o.function, o.params)
          /\ call' = [op |-> "insert_operation", index |-> index,
                      operation |-> o, held_before |-> Len(operations)]
    /\ hist' = "other"
    /\ run' = NoRun
    /\ UNCHANGED << name, snapshots, config, saved,
                    image_vars, thread_vars >>

\* Pipeline.clear_operations(); call keeps how much there was to clear
ClearOperations ==
    /\ \E r \in {clear_operations(operations, snapshots)} :
          /\ operations' = r.operations
          /\ snapshots' = r.snapshots
    /\ call' = [op |-> "clear_operations",
                held_before |-> Len(operations),
                snapshots_before |-> Cardinality(DOMAIN snapshots)]
    /\ hist' = "other"
    /\ run' = NoRun
    /\ UNCHANGED << name, config, saved,
                    image_vars, thread_vars >>

SavePipeline ==
    /\ config' = save_pipeline(name, operations)
    /\ call' = [op |-> "save_pipeline"]
    /\ saved' = Some([name |-> name,
                      operation_list |-> get_operation_list(operations)])
    /\ UNCHANGED << name, operations, snapshots, hist, run,
                    image_vars, thread_vars >>

\* Faulty variant of the load_pipeline call: the snapshots go with the old
\* operations.
LoadPipelineReset ==
    \E function_registry \in Registries :
    \E r \in {load_pipeline(name, operations, config, function_registry)} :
          /\ name' = r.name
          /\ operations' = r.operations
          /\ snapshots' = dict_clear(snapshots)
          /\ call' = [op |-> "load_pipeline",
                      registry_names |-> DOMAIN function_registry,
                      held_before |-> Len(operations)]
          /\ hist' = "other"
          /\ run' = NoRun
          /\ UNCHANGED << config, saved, image_vars, thread_vars >>

\* load_pipeline(config, function_registry) with the configuration held
LoadPipeline ==
    \E function_registry \in Registries :
    \E r \in {load_pipeline(name, operations, config, function_registry)} :
          /\ name' = r.name
          /\ operations' = r.operations
          /\ call' = [op |-> "load_pipeline",
                      registry_names |-> DOMAIN function_registry,
                      held_before |-> Len(operations)]
          /\ hist' = "other"
          /\ run' = NoRun
          /\ UNCHANGED << snapshots, config, saved,
                    image_vars, thread_vars >>

\* One Pipeline edited, loaded and run; the caller keeps the configuration
\* it started with.
Next ==
    \/ AddOperation
    \/ InsertOperation
    \/ RemoveOperation
    \/ ClearOperations
    \/ LoadPipeline
    \/ Execute
    \/ ExecutePartial

Spec == Init /\ [][Next]_vars

\* One Pipeline edited, saved and loaded, never run.
NextConfig ==
    \/ AddOperation
    \/ InsertOperation
    \/ RemoveOperation
    \/ ClearOperations
    \/ SavePipeline
    \/ LoadPipeline

\* Pipeline.__init__(name), and any of the hand-written configurations
InitConfig ==
    /\ name \in PipelineNames
    /\ operations = << >>
    /\ snapshots = << >>
    /\ config \in HandConfigs
    /\ call = [op |-> "init"]
    /\ saved = None
    /\ hist = "adds"
    /\ run = NoRun
    /\ NoComposite
    /\ NoThreads

SpecConfig == InitConfig /\ [][NextConfig]_vars

\* One Pipeline run and edited, every remove_operation call with its index.
NextRemove ==
    \/ AddOperation
    \/ RemoveOperationAt
    \/ ClearOperations
    \/ Execute

SpecRemove == Init /\ [][NextRemove]_vars

\* One Pipeline edited and never run, every insert_operation call with its
\* arguments.
NextInsert ==
    \/ AddOperation
    \/ InsertOperationAt
    \/ RemoveOperation
    \/ ClearOperations

SpecInsert == Init /\ [][NextInsert]_vars

(***************************************************************************)
(* One VisionFlowImage.  Image objects made during a call that nobody      *)
(* holds after it are dropped from heap; what the caller got back is kept  *)
(* in call by value.                                                       *)
(***************************************************************************)
\* a Pipeline as Pipeline.__init__ leaves it
FreshPipeline ==
    /\ name = "Untitled Pipeline"
    /\ operations = << >>
    /\ snapshots = << >>
    /\ config = NamelessConfig
    /\ saved = None
    /\ hist = "adds"
    /\ run = NoRun

\* VisionFlowImage(image=image) for an image of any of the levels
InitImage ==
    /\ FreshPipeline
    /\ call = [op |-> "init"]
    /\ NoThreads
    /\ \E p \in Levels :
       \E r \in {VisionFlowImage(<< p >>, 1)} :
          /\ heap = r.heap
          /\ base_image = r.base_image
          /\ layers = r.layers
          /\ processing_history = r.processing_history
          /\ metadata = r.metadata

\* VisionFlowImage(image_path, image): when it returns, the model follows
\* the new composite; when it raises there is no new object; had_object
\* tells whether a composite was there before the call
Construct ==
    /\ \E image_path \in {None} \cup {Some(p) : p \in ImagePaths},
          image \in {None} \cup {Some(p) : p \in Levels},
          file \in Levels :
       \E r \in {VisionFlowImage_init(image_path, image, file)} :
          /\ call' = [op |-> "construct", image_path |-> image_path,
                      image |-> image, raised |-> r.raised,
                      had_object |-> (base_image # 0)]
          /\ IF r.raised THEN UNCHANGED image_vars
             ELSE /\ heap' = r.self.heap
                  /\ base_image' = r.self.base_image
                  /\ layers' = r.self.layers
                  /\ processing_history' = r.self.processing_history
                  /\ metadata' = r.self.metadata
    /\ UNCHANGED << pipeline_vars, thread_vars >>

\* add_layer(image, name) with an object the caller can get hold of: the
\* image the composite was made from, base_image, or a layer's image
AddLayer ==
    /\ Len(layers) < MaxLayers
    /\ Len(processing_history) < MaxHistory
    /\ \E image \in 1 .. Len(heap), n \in LayerNames :
       \E r \in {add_layer(layers, processing_history, image, n,
                            Rat(1, 1), "normal")} :
          /\ layers' = r.layers
          /\ processing_history' = r.processing_history
          /\ call' = [op |-> "add_layer", image |-> image, name |-> n,
                      ret |-> r.ret]
    /\ UNCHANGED << pipeline_vars, thread_vars, heap, base_image, metadata >>

\* add_layer(Image.new(color), "Red", opacity, blend_mode); the caller makes
\* up to MaxBlendLayers images beside the three of the construction
AddLayerBlend ==
    /\ Len(heap) < 3 + MaxBlendLayers
    /\ \E color \in Levels, opacity \in Opacities, blend_mode \in BlendModes :
       \E r \in {add_layer(layers, processing_history, Len(heap) + 1, "Red",
                            opacity, blend_mode)} :
          /\ heap' = Append(heap, color)
          /\ layers' = r.layers
          /\ processing_history' = r.processing_history
    /\ call' = [op |-> "add_layer"]
    /\ UNCHANGED << pipeline_vars, thread_vars, base_image, metadata >>

\* layer.opacity = opacity on a layer of the composite
SetOpacity ==
    /\ \E i \in 1 .. Len(layers), opacity \in Opacities :
          layers' = [layers EXCEPT ![i].opacity = opacity]
    /\ call' = [op |-> "set_opacity"]
    /\ UNCHANGED << pipeline_vars, thread_vars, heap, base_image, processing_history,
                    metadata >>

\* layer.blend_mode = blend_mode on a layer of the composite
SetBlendMode ==
    /\ \E i \in 1 .. Len(layers), blend_mode \in BlendModes :
          layers' = [layers EXCEPT ![i].blend_mode = blend_mode]
    /\ call' = [op |-> "set_blend_mode"]
    /\ UNCHANGED << pipeline_vars, thread_vars, heap, base_image, processing_history,
                    metadata >>

\* layer.visible = visible on a layer of the composite
SetVisible ==
    /\ \E i \in 1 .. Len(layers), visible \in BOOLEAN :
          layers' = [layers EXCEPT ![i].visible = visible]
    /\ call' = [op |-> "set_visible"]
    /\ UNCHANGED << pipeline_vars, thread_vars, heap, base_image, processing_history,
                    metadata >>

\* get_layer(i).copy() for a layer of the composite: original is the layer
\* copied, ret the layer returned and ret_pixel the pixel of its image
CopyLayer ==
    /\ \E i \in 1 .. Len(layers) :
       \E r \in {layer_copy(heap, layers[i])} :
          /\ heap' = SubSeq(r.heap, 1, Len(heap))
          /\ call' = [op |-> "layer_copy", original |-> layers[i],
                      ret |-> r.layer,
                      ret_pixel |-> r.heap[r.layer.image]]
    /\ UNCHANGED << pipeline_vars, thread_vars, base_image, layers, processing_history,
                    metadata >>

RemoveLayer ==
    /\ Len(processing_history) < MaxHistory
    /\ \E layer_index \in LayerIndices :
       \E r \in {remove_layer(layers, processing_history, layer_index)} :
          /\ layers' = r.layers
          /\ processing_history' = r.processing_history
          /\ call' = [op |-> "remove_layer", layer_index |-> layer_index]
    /\ UNCHANGED << pipeline_vars, thread_vars, heap, base_image, metadata >>

GetLayer ==
    /\ \E layer_index \in LayerIndices :
          call' = [op |-> "get_layer", layer_index |-> layer_index,
                   ret |-> get_layer(layers, layer_index)]
    /\ UNCHANGED << pipeline_vars, image_vars, thread_vars >>

\* flatten(): ret is the pixel of the image returned, ret_fresh whether it
\* is an object made by this call
Flatten ==
    /\ \E r \in {flatten(heap, base_image, layers)} :
          /\ heap' = SubSeq(r.heap, 1, Len(heap))
          /\ call' = [op |-> "flatten", ret |-> r.heap[r.ref],
                      ret_fresh |-> (r.ref > Len(heap))]
    /\ UNCHANGED << pipeline_vars, thread_vars, base_image, layers, processing_history,
                    metadata >>

GetMetadata ==
    /\ call' = [op |-> "get_metadata", ret |-> get_metadata(metadata)]
    /\ UNCHANGED << pipeline_vars, image_vars, thread_vars >>

\* save(output_path, flatten): written is the pixel that went to the path
Save ==
    /\ Len(processing_history) < MaxHistory
    /\ \E output_path \in Paths, do_flatten \in BOOLEAN :
       \E r \in {save(heap, base_image, layers, processing_history,
                       output_path, do_flatten)} :
          /\ heap' = SubSeq(r.heap, 1, Len(heap))
          /\ processing_history' = r.processing_history
          /\ call' = [op |-> "save", path |-> output_path,
                      flatten |-> do_flatten, written |-> r.written]
    /\ UNCHANGED << pipeline_vars, thread_vars, base_image, layers, metadata >>

\* One composite whose layers are added, looked up and removed, and which
\* is flattened and saved.
NextImage ==
    \/ AddLayer
    \/ RemoveLayer
    \/ GetLayer
    \/ Flatten
    \/ GetMetadata
    \/ Save

SpecImage == InitImage /\ [][NextImage]_vars

\* One composite whose layers get opacities and blend modes, flattened.
NextFlatten ==
    \/ AddLayerBlend
    \/ SetOpacity
    \/ SetBlendMode
    \/ Flatten

SpecFlatten == InitImage /\ [][NextFlatten]_vars

\* One composite whose layers are added with opacities and blend modes, are
\* hidden and shown and removed, flattened.
NextVisible ==
    \/ AddLayerBlend
    \/ SetVisible
    \/ RemoveLayer
    \/ Flatten

SpecVisible == InitImage /\ [][NextVisible]_vars

\* One composite whose layers are added with colours of their own and
\* removed, saved.
NextSave ==
    \/ AddLayerBlend
    \/ RemoveLayer
    \/ Save

SpecSave == InitImage /\ [][NextSave]_vars

\* Composites constructed, from nothing on, and their layers' attributes
\* assigned.
NextConstruct ==
    \/ Construct
    \/ SetOpacity
    \/ SetBlendMode
    \/ SetVisible

SpecConstruct == Init /\ [][NextConstruct]_vars

\* One composite whose layers are added, hidden and shown, and copied.
NextCopy ==
    \/ AddLayerBlend
    \/ SetVisible
    \/ CopyLayer

SpecCopy == InitImage /\ [][NextCopy]_vars

(***************************************************************************)
(* Properties.                                                             *)
(***************************************************************************)

\* what a transform that returns makes of pixel value v
transform_value(operation, v) ==
    IF operation.function = "adjust_contrast"
    THEN contrast_value(v, operation.params)
    ELSE inplace_value(v, operation.params)

\* pixel value v after the first k operations of ops, in list order
RECURSIVE apply_first(_, _, _)
apply_first(ops, v, k) ==
    IF k = 0 THEN v
    ELSE transform_value(ops[k], apply_first(ops, v, k - 1))

\* the last call was execute(image, save_snapshots=True)
ran_with_snapshots == call.op = "execute" /\ call.save_snapshots

\* C1: every execute(img, save_snapshots=True) that returns leaves exactly
\* the snapshot keys 0..N, N the number of operations, whatever calls came
\* before: no snapshot of an earlier, longer run survives.
C1_ExecuteResetsSnapshots ==
    (ran_with_snapshots /\ ~call.raised)
        => DOMAIN snapshots = 0 .. Len(operations)

\* C2: on a new Pipeline that saw only add_operation calls and was never
\* run, an execute(img, save_snapshots=True) that returns leaves exactly the
\* snapshots 0..N, snapshot 0 equals the input, and with N = 0 the returned
\* image equals the input and key 0 is the only snapshot.
C2_FirstRunSnapshots ==
    (hist = "first_run" /\ ran_with_snapshots /\ ~call.raised)
        => /\ DOMAIN snapshots = 0 .. Len(operations)
           /\ snapshots[0] = call.image
           /\ Len(operations) = 0
                 => (call.ret = Some(call.image) /\ DOMAIN snapshots = {0})

\* C2 happens: a first run over two operations returned
C2_Witness ==
    /\ hist = "first_run" /\ ran_with_snapshots /\ ~call.raised
    /\ Len(operations) = 2
    /\ call.ret # Some(call.image)

\* C3: execute_partial(img, k), 0 <= k <= N, returns snapshot k of the
\* execute(img, save_snapshots=True) run on the same operations and the
\* same input, and that snapshot is the input after exactly the first k
\* operations in list order.
C3_PartialEqualsSnapshot ==
    /\ (call.op = "execute_partial" /\ run.fresh
            /\ run.image = Some(call.image)
            /\ call.up_to_step \in 0 .. Len(operations))
          => /\ ~call.raised
             /\ call.up_to_step \in DOMAIN snapshots
             /\ call.ret = Some(snapshots[call.up_to_step])
    /\ (ran_with_snapshots /\ ~call.raised)
          => \A k \in 0 .. Len(operations) :
                snapshots[k] = apply_first(operations, call.image, k)

\* C3 happens: a partial run stopped inside a two-operation list whose
\* snapshots the same input left, after a step that changed the image
C3_Witness ==
    /\ call.op = "execute_partial" /\ run.fresh
    /\ run.image = Some(call.image)
    /\ Len(operations) = 2 /\ call.up_to_step = 1
    /\ call.ret # Some(call.image)

\* C4: when the transform at index k raises during
\* execute(img, save_snapshots=True), the call raises, no later operation
\* runs, snapshots 0..k are those of this run, and the map holds no key
\* k + 1 or later.
C4_RaiseLeavesNoLaterSnapshot ==
    (ran_with_snapshots /\ call.raised)
        => LET k == call.invoked - 1 IN
           /\ operations[k + 1].params.amount = 0
           /\ \A j \in 0 .. k :
                 /\ j \in DOMAIN snapshots
                 /\ snapshots[j] = apply_first(operations, call.image, j)
           /\ \A j \in DOMAIN snapshots : j <= k

\* What does hold when the transform at index k raises: the call raises at
\* once and snapshots 0..k are those of this run (keys above k are whatever
\* earlier runs left).
C4_CompletedStepsKept ==
    (ran_with_snapshots /\ call.raised)
        => LET k == call.invoked - 1 IN
           /\ operations[k + 1].params.amount = 0
           /\ call.ret = None
           /\ \A j \in 0 .. k :
                 /\ j \in DOMAIN snapshots
                 /\ snapshots[j] = apply_first(operations, call.image, j)

\* the entries of the configuration held, and the names among them
config_entries == dict_get(config, "operations", << >>)
config_names == {config_entries[j].name : j \in 1 .. Len(config_entries)}

\* entry e names an operation the registry of the last load_pipeline knows
resolvable(e) == e.name \in call.registry_names

\* the name and params of the entries of a configuration that resolve
kept_entries == SelectSeq(config_entries, resolvable)

\* C5: save_pipeline() and then load_pipeline() with a registry that knows
\* every operation name of the original give back the original's name and
\* get_operation_list(): same names, params, order and length, repeated
\* names included.
C5_SaveLoadRoundTrip ==
    (call.op = "load_pipeline" /\ saved # None
        /\ config_names \subseteq call.registry_names)
        => /\ name = saved[1].name
           /\ get_operation_list(operations) = saved[1].operation_list

\* C5 happens: a saved two-operation list with a repeated name and another
\* pipeline name came back into a pipeline that held something else
C5_Witness ==
    /\ call.op = "load_pipeline" /\ saved # None
    /\ config_names \subseteq call.registry_names
    /\ Len(operations) = 2
    /\ operations[1].name = operations[2].name
    /\ operations[1].params # operations[2].params
    /\ name = "Test Pipeline"
    /\ call.held_before = 1

\* the registry of the last load_pipeline lacks exactly one of the names the
\* configuration uses
lacks_one_name ==
    /\ call.op = "load_pipeline"
    /\ Cardinality(config_names \ call.registry_names) = 1

\* C6 as stated: with a registry that lacks one operation name, exactly that
\* one operation is dropped and every other operation of the config is
\* kept, also when names repeat.
C6_ExactlyOneDropped ==
    lacks_one_name => Len(operations) = Len(config_entries) - 1

\* C6 as amended: with a registry that lacks one operation name, every
\* operation bearing that name is dropped, and the operations bearing any
\* other name are kept, in their order in the config.
C6_MissingNameDropped ==
    lacks_one_name
        => /\ get_operation_list(operations) = kept_entries
           /\ \A j \in 1 .. Len(operations) :
                 operations[j].name \in call.registry_names
           /\ Len(operations) =
                 Cardinality({j \in 1 .. Len(config_entries) :
                                 config_entries[j].name
                                     \in call.registry_names})

\* C6 happens: the lacking name sat between two kept entries
C6_Witness ==
    /\ lacks_one_name
    /\ Len(config_entries) = 3 /\ Len(operations) = 2
    /\ ~ resolvable(config_entries[2])

\* C7: load_pipeline replaces the name and the whole operation list: the
\* operations are the config's resolvable entries, in config order, bound
\* to the registry's transforms, and nothing held before remains.
C7_LoadReplaces ==
    call.op = "load_pipeline"
        => /\ name = IF "name" \in DOMAIN config THEN config.name
                     ELSE "Untitled Pipeline"
           /\ operations =
                 [j \in 1 .. Len(kept_entries) |->
                     PipelineOperation(kept_entries[j].name,
                                       FullRegistry[kept_entries[j].name],
                                       kept_entries[j].params)]

\* C7 happens: a pipeline that held two operations was loaded with a
\* configuration of another name and one resolvable entry
C7_Witness ==
    /\ call.op = "load_pipeline" /\ call.held_before = 2
    /\ Len(operations) = 1 /\ Len(config_entries) > 1
    /\ "name" \in DOMAIN config /\ name = "Test Pipeline"

\* C8: execute and execute_partial never change the caller's image, also
\* with a transform that works in place, and what they return is never the
\* caller's object (with zero operations it is a copy).
C8_CallerImageUntouched ==
    call.op \in {"execute", "execute_partial"}
        => /\ call.arg_after = call.image
           /\ ~ call.ret_is_arg

\* C8 happens: an in-place transform ran first and changed the pixels
C8_Witness ==
    /\ call.op = "execute" /\ ~ call.raised
    /\ Len(operations) > 0
    /\ operations[1].function = "inplace_filter"
    /\ call.ret # Some(call.image)

\* C9: execute(img, save_snapshots=False) and execute_partial(img, k) leave
\* the snapshot map as it was: same keys, same images.
C9_SnapshotsUntouched ==
    [][ (\/ call'.op = "execute_partial"
         \/ (call'.op = "execute" /\ ~ call'.save_snapshots))
        => snapshots' = snapshots ]_vars

\* C9 happens: a partial run ran a transform while the map held snapshots
\* of an earlier, longer run
C9_Witness ==
    /\ call.op = "execute_partial" /\ call.invoked > 0
    /\ DOMAIN snapshots # {}
    /\ DOMAIN snapshots # 0 .. Len(operations)

\* C10: execute_partial applies the operations with index < up_to_step
\* only: for up_to_step <= 0 it returns an unmodified copy of the input, and
\* for up_to_step >= len(operations) it does what execute(img) does.
C10_PartialBounds ==
    call.op = "execute_partial"
        => /\ call.invoked <= Max(0, call.up_to_step)
           /\ ~ call.raised
                 => call.ret =
                       Some(apply_first(operations, call.image,
                                        Min(Max(0, call.up_to_step),
                                            Len(operations))))
           /\ call.up_to_step <= 0
                 => /\ ~ call.raised /\ call.invoked = 0
                    /\ call.ret = Some(call.image) /\ ~ call.ret_is_arg
           /\ call.up_to_step >= Len(operations)
                 => LET e == execute(operations, snapshots,
                                     << call.image >>, 1, FALSE)
                    IN /\ call.raised = e.raised
                       /\ call.invoked = e.invoked
                       /\ ~ e.raised => call.ret = Some(e.heap[e.ref])

\* C10 happens: a negative up_to_step on a non-empty list, whose first
\* transform would have changed the image
C10_Witness ==
    /\ call.op = "execute_partial" /\ call.up_to_step < 0
    /\ Len(operations) = 2
    /\ transform_value(operations[1], call.image) # call.image

(***************************************************************************)
(* Editing the operation list.                                             *)
(***************************************************************************)
\* after is before without the element at 0-based position index, the
\* others in order
without_index(after, before, index) ==
    /\ Len(after) = Len(before) - 1
    /\ \A j \in 1 .. Len(after) :
          after[j] = before[IF j <= index THEN j ELSE j + 1]

\* C11: remove_operation(index) removes exactly the operation at index when
\* 0 <= index < len and keeps the others in order; for every other index,
\* the negative ones included, the list stays as it was; the snapshot map is
\* the same before and after in both cases.
C11_RemoveOperation ==
    [][ call'.op = "remove_operation" =>
          /\ IF 0 <= call'.index /\ call'.index < Len(operations)
             THEN without_index(operations', operations, call'.index)
             ELSE operations' = operations
          /\ snapshots' = snapshots ]_vars

\* a removal in range with snapshots stored, and a call with a negative
\* index on a list that holds operations
C11_Witness ==
    /\ call.op = "remove_operation"
    /\ 0 <= call.index /\ call.index < call.held_before
    /\ Len(operations) = call.held_before - 1
    /\ Len(operations) >= 1
    /\ snapshots # << >>

C11_WitnessNegative ==
    /\ call.op = "remove_operation"
    /\ call.index < 0 /\ 0 - call.index <= call.held_before
    /\ Len(operations) = call.held_before

\* C12: for every index in 0..len, insert_operation(index, ...) grows the
\* list by one, puts the new operation at position index and keeps the
\* operations that were there in their order.
C12_InsertInRange ==
    [][ (call'.op = "insert_operation"
         /\ 0 <= call'.index /\ call'.index <= Len(operations)) =>
          /\ Len(operations') = Len(operations) + 1
          /\ operations'[call'.index + 1] = call'.operation
          /\ \A j \in 1 .. Len(operations) :
                operations'[IF j <= call'.index THEN j ELSE j + 1]
                   = operations[j] ]_vars

\* an insert between two operations that were there
C12_Witness ==
    /\ call.op = "insert_operation"
    /\ call.held_before = 2
    /\ call.index = 1
    /\ Len(operations) = 3
    /\ operations[2] = call.operation

\* C13: after clear_operations() the operation list and the snapshot map are
\* both empty, whatever they held; get_snapshot(step) then returns None for
\* every step and get_operation_list() is empty.
C13_ClearEmptiesBoth ==
    call.op = "clear_operations" =>
        /\ operations = << >>
        /\ snapshots = << >>
        /\ \A step \in Steps : get_snapshot(snapshots, step) = None
        /\ get_operation_list(operations) = << >>

\* a clear of a pipeline that held operations and snapshots
C13_Witness ==
    /\ call.op = "clear_operations"
    /\ call.held_before >= 1
    /\ call.snapshots_before >= 2
    /\ operations = << >>
    /\ snapshots = << >>

(***************************************************************************)
(* The layer stack and the history of a VisionFlowImage.                   *)
(***************************************************************************)
\* C14: a VisionFlowImage starts with exactly one layer, named Background,
\* and after any sequence of add_layer, remove_layer, flatten and save its
\* layer list is never empty.
C14_LayersNeverEmpty ==
    /\ call.op = "init" =>
          (Len(layers) = 1 /\ layers[1].name = "Background")
    /\ Len(layers) >= 1

\* what does hold: the composite starts with the one Background layer
C14_StartsWithBackground ==
    call.op = "init" => (Len(layers) = 1 /\ layers[1].name = "Background")

\* C15: layer images are never aliased: after any sequence of add_layer
\* calls, also ones that pass the same image object twice or pass
\* base_image, no two layers hold the same image object and no layer holds
\* the object that is base_image.
C15_NoAliasing ==
    /\ \A i, j \in 1 .. Len(layers) :
          i # j => layers[i].image # layers[j].image
    /\ \A i \in 1 .. Len(layers) : layers[i].image # base_image

\* C16: remove_layer(index) with 0 <= index < len removes exactly the layer
\* at index and appends one history entry {operation: remove_layer,
\* params: {name: the removed layer's name}, layer_count: the count after
\* the removal}; with any other index layers and history stay as they were.
C16_RemoveLayer ==
    [][ call'.op = "remove_layer" =>
          IF 0 <= call'.layer_index /\ call'.layer_index < Len(layers)
          THEN /\ without_index(layers', layers, call'.layer_index)
               /\ processing_history' =
                     Append(processing_history,
                            [operation |-> "remove_layer",
                             params |->
                                [name |-> layers[call'.layer_index + 1].name],
                             layer_count |-> Len(layers) - 1])
          ELSE /\ layers' = layers
               /\ processing_history' = processing_history ]_vars

\* index 1 of a two-layer composite removed: one layer left, and the entry
\* names the removed layer with layer_count 1
C16_Witness ==
    /\ call.op = "remove_layer"
    /\ call.layer_index = 1
    /\ Len(layers) = 1
    /\ layers[1].name = "Background"
    /\ Len(processing_history) = 2
    /\ processing_history[2] = [operation |-> "remove_layer",
                                params |-> [name |-> "Red Layer"],
                                layer_count |-> 1]

\* a remove_layer past the end after that: still one layer, no new entry
C16_WitnessOutOfRange ==
    /\ call.op = "remove_layer"
    /\ call.layer_index = 3
    /\ Len(layers) = 1
    /\ Len(processing_history) = 2
    /\ processing_history[2].operation = "remove_layer"

\* C17: add_layer appends the new layer at the last index and returns it,
\* keeps the layers that were there where they were, and appends exactly one
\* history entry {operation: add_layer, params: {name: the name},
\* layer_count: the count after the append}.
C17_AddLayer ==
    [][ call'.op = "add_layer" =>
          /\ Len(layers') = Len(layers) + 1
          /\ SubSeq(layers', 1, Len(layers)) = layers
          /\ layers'[Len(layers')] = call'.ret
          /\ call'.ret.name = call'.name
          /\ call'.ret.image = call'.image
          /\ processing_history' =
                Append(processing_history,
                       [operation |-> "add_layer",
                        params |-> [name |-> call'.name],
                        layer_count |-> Len(layers) + 1]) ]_vars

\* a second layer added on top of a first
C17_Witness ==
    /\ call.op = "add_layer"
    /\ Len(layers) = 3
    /\ layers[3] = call.ret
    /\ layers[2].name # layers[3].name
    /\ Len(processing_history) = 2
    /\ processing_history[2].layer_count = 3

\* C18: processing_history only grows at its end over add_layer,
\* remove_layer, get_layer, flatten, get_metadata and save: what it was is a
\* prefix of what it is after any of them; flatten, get_layer and
\* get_metadata add no entry.
C18_HistoryAppendOnly ==
    [][ /\ Len(processing_history) <= Len(processing_history')
        /\ SubSeq(processing_history', 1, Len(processing_history))
              = processing_history
        /\ call'.op \in {"flatten", "get_layer", "get_metadata"} =>
              processing_history' = processing_history ]_vars

\* a history of an add_layer, a remove_layer and a save
C18_Witness ==
    /\ call.op = "save"
    /\ Len(processing_history) = 3
    /\ processing_history[1].operation = "add_layer"
    /\ processing_history[2].operation = "remove_layer"
    /\ processing_history[3].operation = "save"

\* a flatten of a composite with history
C18_WitnessFlatten ==
    /\ call.op = "flatten"
    /\ Len(processing_history) >= 2

(***************************************************************************)
(* flatten.                                                                *)
(***************************************************************************)
\* the pixel flatten returns for the layer stack lyrs
flat_value(lyrs) ==
    LET r == flatten(heap, base_image, lyrs) IN r.heap[r.ref]

\* C19: flatten() of a composite that holds only its Background layer
\* returns the pixels of the base image, whatever opacity and blend mode
\* that layer carries; flatten changes neither the layers nor base_image.
C19_FlattenBackgroundOnly ==
    [][ call'.op = "flatten" =>
          /\ (Len(layers) = 1 /\ layers[1].name = "Background") =>
                call'.ret = heap[base_image]
          /\ layers' = layers
          /\ base_image' = base_image
          /\ heap' = heap ]_vars

\* a Background at half opacity in multiply mode, flattened to a new image
\* with the base's pixels
C19_Witness ==
    /\ call.op = "flatten"
    /\ Len(layers) = 1
    /\ layers[1].name = "Background"
    /\ layers[1].opacity = Rat(1, 2)
    /\ layers[1].blend_mode = "multiply"
    /\ heap[base_image] = 128
    /\ call.ret = 128
    /\ call.ret_fresh

\* C20: flatten() of a two-layer stack whose top layer has opacity 0 returns
\* what flatten returns for the stack with that layer removed, for every
\* blend mode and every pixel value of both layers.
C20_TransparentTop ==
    (call.op = "flatten" /\ Len(layers) = 2 /\ layers[2].opacity.num = 0) =>
        call.ret =
            flat_value(remove_layer(layers, processing_history, 1).layers)

\* C20 as it holds: the same when the layer below the transparent one is
\* visible, or the transparent one is hidden itself; below a hidden layer a
\* transparent top layer is the first visible one and is returned as it is.
C20_TransparentTopOverVisible ==
    (call.op = "flatten" /\ Len(layers) = 2 /\ layers[2].opacity.num = 0
     /\ (layers[1].visible \/ ~layers[2].visible)) =>
        call.ret =
            flat_value(remove_layer(layers, processing_history, 1).layers)

\* a transparent multiply layer of another colour on top
C20_Witness ==
    /\ call.op = "flatten"
    /\ Len(layers) = 2
    /\ layers[1].visible /\ layers[2].visible
    /\ layers[2].opacity.num = 0
    /\ layers[2].blend_mode = "multiply"
    /\ heap[layers[2].image] = 255
    /\ heap[layers[1].image] = 128
    /\ call.ret = 128

(***************************************************************************)
(* Further properties of the pipeline's list and snapshot map.             *)
(***************************************************************************)
\* where list.insert puts an element for index on a list of length n
insert_position(index, n) ==
    IF index > n THEN n
    ELSE IF index < 0 THEN Max(0, n + index)
    ELSE index

\* C30: insert_operation never fails and grows the list by exactly one for
\* every integer index: an index above len appends at the end, a negative
\* index counts from the end and is clamped at position 0, and the
\* operations that were there keep their relative order.
C30_InsertAnyIndex ==
    [][ call'.op = "insert_operation" =>
          LET pos == insert_position(call'.index, Len(operations))
          IN /\ Len(operations') = Len(operations) + 1
             /\ operations'[pos + 1] = call'.operation
             /\ \A j \in 1 .. Len(operations) :
                   operations'[IF j <= pos THEN j ELSE j + 1]
                      = operations[j] ]_vars

\* a negative index beyond the front, clamped to position 0
C30_Witness ==
    /\ call.op = "insert_operation"
    /\ call.held_before = 2
    /\ call.index = 0 - 3
    /\ Len(operations) = 3
    /\ operations[1] = call.operation
    /\ operations[2] # call.operation

\* an index above len, appended at the end
C30_WitnessAppend ==
    /\ call.op = "insert_operation"
    /\ call.held_before = 1
    /\ call.index = 3
    /\ Len(operations) = 2
    /\ operations[2] = call.operation

\* a negative index counted from the end
C30_WitnessFromEnd ==
    /\ call.op = "insert_operation"
    /\ call.held_before = 2
    /\ call.index = 0 - 1
    /\ Len(operations) = 3
    /\ operations[2] = call.operation
    /\ operations[1] # call.operation /\ operations[3] # call.operation

\* C29: load_pipeline replaces the name and the operation list only: the
\* snapshot map is the same before and after, so get_snapshot returns after
\* the load what it returned before it; the snapshots stay until an
\* execute with save_snapshots or a clear_operations.
C29_LoadKeepsSnapshots ==
    [][ /\ call'.op = "load_pipeline" =>
              /\ snapshots' = snapshots
              /\ \A step \in Steps :
                    get_snapshot(snapshots', step) = get_snapshot(snapshots, step)
        /\ (/\ call'.op # "clear_operations"
            /\ ~(call'.op = "execute" /\ call'.save_snapshots)) =>
              snapshots' = snapshots ]_vars

\* a load that replaced a shorter list, the three snapshots of its run
\* still there
C29_Witness ==
    /\ call.op = "load_pipeline"
    /\ call.held_before = 2
    /\ Len(operations) # 2
    /\ DOMAIN snapshots = 0 .. 2
    /\ \A step \in 0 .. 2 : get_snapshot(snapshots, step) # None

(***************************************************************************)
(* Further properties of the layer stack and the history.                  *)
(***************************************************************************)
\* how many entries of history record operation
count_entries(history, operation) ==
    Cardinality({j \in 1 .. Len(history) : history[j].operation = operation})

\* C28: after any sequence of add_layer, remove_layer and save calls the
\* number of layers is 1 + the number of add_layer entries - the number of
\* remove_layer entries, and the layer_count of the last entry, when there
\* is one, is the current number of layers.
C28_LayerCountMatchesHistory ==
    /\ Len(layers) = 1 + count_entries(processing_history, "add_layer")
                       - count_entries(processing_history, "remove_layer")
    /\ processing_history # << >> =>
          processing_history[Len(processing_history)].layer_count = Len(layers)

\* two layers added and one removed
C28_Witness ==
    /\ count_entries(processing_history, "add_layer") = 2
    /\ count_entries(processing_history, "remove_layer") = 1
    /\ Len(layers) = 2
    /\ processing_history[3].operation = "remove_layer"

(***************************************************************************)
(* Further properties of flatten, save and ImageLayer.copy.                *)
(***************************************************************************)
Abs(x) == IF x < 0 THEN 0 - x ELSE x

\* num / den cut to the range lo..hi, as a numerator over den
clamped(num, den, lo, hi) ==
    IF num < lo * den THEN lo * den
    ELSE IF num > hi * den THEN hi * den
    ELSE num

\* C21: for a normal-mode top layer over a base, flatten yields
\* base*(1-opacity) + layer*opacity, clamped to 0..255 and converted to an
\* integer within 1 of the exact value; gray 128 under red (255, 0, 0) at
\* opacity 0.5 gives 191 in the red channel and 64 in the others, within 1.
C21_NormalBlend ==
    (call.op = "flatten" /\ Len(layers) = 2
     /\ layers[2].blend_mode = "normal") =>
        LET base == heap[layers[1].image]
            top == heap[layers[2].image]
            o == layers[2].opacity
            exact == clamped(base * (o.den - o.num) + top * o.num,
                             o.den, 0, 255)
        IN /\ Abs(call.ret * o.den - exact) <= o.den
           /\ (base = 128 /\ top = 255 /\ o = Rat(1, 2)) =>
                 Abs(call.ret - 191) <= 1
           /\ (base = 128 /\ top = 0 /\ o = Rat(1, 2)) =>
                 Abs(call.ret - 64) <= 1

\* the red channel of the gray image under the half-opaque red layer
C21_Witness ==
    /\ call.op = "flatten"
    /\ Len(layers) = 2
    /\ layers[2].blend_mode = "normal"
    /\ layers[2].opacity = Rat(1, 2)
    /\ heap[base_image] = 128
    /\ heap[layers[1].image] = 128
    /\ heap[layers[2].image] = 255
    /\ call.ret = 191

\* the other two channels
C21_WitnessGreenBlue ==
    /\ call.op = "flatten"
    /\ Len(layers) = 2
    /\ layers[2].blend_mode = "normal"
    /\ layers[2].opacity = Rat(1, 2)
    /\ heap[layers[1].image] = 128
    /\ heap[layers[2].image] = 0
    /\ call.ret = 64

\* C23: every save call that returns appends exactly one history entry with
\* operation save and layer_count equal to the current number of layers, for
\* flatten True and False alike, and leaves the layer stack unchanged; with
\* flatten False the image written is base_image whatever layers exist, with
\* flatten True it is the result of flatten().
C23_SaveRecords ==
    [][ call'.op = "save" =>
          /\ Len(processing_history') = Len(processing_history) + 1
          /\ SubSeq(processing_history', 1, Len(processing_history))
                = processing_history
          /\ processing_history'[Len(processing_history')].operation = "save"
          /\ processing_history'[Len(processing_history')].layer_count
                = Len(layers)
          /\ layers' = layers
          /\ call'.written = IF call'.flatten THEN flat_value(layers)
                             ELSE heap[base_image] ]_vars

\* a flattened save that wrote something other than the base
C23_Witness ==
    /\ call.op = "save"
    /\ call.flatten
    /\ Len(layers) = 2
    /\ call.written # heap[base_image]
    /\ processing_history[Len(processing_history)]
          = [operation |-> "save",
             params |-> [path |-> "output.jpg", flatten |-> TRUE],
             layer_count |-> 2]

\* an unflattened save under a layer of another colour
C23_WitnessBase ==
    /\ call.op = "save"
    /\ ~call.flatten
    /\ Len(layers) = 2
    /\ layers[2].opacity = Rat(1, 1)
    /\ heap[layers[2].image] # heap[base_image]
    /\ call.written = heap[base_image]

is_visible(layer) == layer.visible

\* C26: flatten ignores invisible layers: it returns what it returns for the
\* stack with every hidden layer removed, and a copy of base_image when no
\* layer is visible or the stack is empty.
C26_HiddenLayersIgnored ==
    call.op = "flatten" =>
        /\ call.ret = flat_value(SelectSeq(layers, is_visible))
        /\ SelectSeq(layers, is_visible) = << >> =>
              (call.ret = heap[base_image] /\ call.ret_fresh)

\* the Background hidden under a layer of another colour: that layer comes
\* back as it is
C26_Witness ==
    /\ call.op = "flatten"
    /\ Len(layers) = 2
    /\ layers[1].name = "Background" /\ ~layers[1].visible
    /\ layers[2].visible
    /\ layers[2].opacity = Rat(1, 2)
    /\ heap[layers[2].image] # heap[base_image]
    /\ call.ret = heap[layers[2].image]

\* the one layer left hidden, and the stack emptied
C26_WitnessNoneVisible ==
    /\ call.op = "flatten"
    /\ Len(layers) = 1
    /\ ~layers[1].visible
    /\ heap[layers[1].image] # heap[base_image]
    /\ call.ret = heap[base_image]

C26_WitnessEmpty ==
    /\ call.op = "flatten"
    /\ layers = << >>
    /\ call.ret = heap[base_image]

\* C27: ImageLayer.copy() returns a layer with an image object of its own
\* that holds the same pixels, and with the name, opacity, blend mode and
\* visibility of the original, also for an original that is hidden.
C27_CopyKeepsLayer ==
    call.op = "layer_copy" =>
        /\ call.ret.image # call.original.image
        /\ call.ret.image \notin 1 .. Len(heap)
        /\ call.ret_pixel = heap[call.original.image]
        /\ call.ret.name = call.original.name
        /\ call.ret.opacity = call.original.opacity
        /\ call.ret.blend_mode = call.original.blend_mode
        /\ call.ret.visible = call.original.visible

\* what does hold: everything but the visibility is carried over
C27_CopyKeepsAllButVisible ==
    call.op = "layer_copy" =>
        /\ call.ret.image \notin 1 .. Len(heap)
        /\ call.ret_pixel = heap[call.original.image]
        /\ call.ret.name = call.original.name
        /\ call.ret.opacity = call.original.opacity
        /\ call.ret.blend_mode = call.original.blend_mode
        /\ call.ret.visible

(***************************************************************************)
(* Construction of a VisionFlowImage.                                      *)
(***************************************************************************)
\* C22: construction requires exactly one of image_path and image: with
\* neither it fails (ValueError) and no object is created, and it succeeds
\* only when exactly one of the two is supplied.
C22_ExactlyOneSource ==
    call.op = "construct" =>
        /\ (call.image_path = None /\ call.image = None) =>
              (call.raised /\ (base_image # 0) = call.had_object)
        /\ ~call.raised =>
              ((call.image_path = None) # (call.image = None))

\* what does hold: it fails exactly when neither is supplied
C22_FailsIffNeither ==
    [][ call'.op = "construct" =>
          /\ call'.raised = (call'.image_path = None /\ call'.image = None)
          /\ call'.raised => UNCHANGED image_vars ]_vars

(***************************************************************************)
(* Concurrent callers of Pipeline.execute.  Pipeline takes no lock, so     *)
(* the statements of two calls interleave; a step of the model is the      *)
(* work of one call up to and including one write into self.snapshots.     *)
(* current_image is a local of the call, the snapshot map is a field of    *)
(* the instance.  No thread edits an operation list during the runs.       *)
(***************************************************************************)
Threads == {1, 2}

\* the lists add_operation can have built
OpLists == UNION { [1 .. n -> OpChoices] : n \in 0 .. MaxOps }

\* a Pipeline holding list l, never run
BuiltPipeline(l) == [operations |-> l, snapshots |-> << >>]

\* a call execute(image, save_snapshots) on Pipeline k that has not begun;
\* current is not read before the call assigns it
PendingCall(k, image, save_snapshots) ==
    [instance |-> k, image |-> image, save_snapshots |-> save_snapshots,
     pc |-> "start", i |-> 0, current |-> image, ret |-> None]

\* where a call stands once i operations are behind it
pc_after(i, ops) == IF i >= Len(ops) THEN "done" ELSE "loop"

\* some other call is between its first and its last step
other_in_flight(t) == \E u \in Threads \ {t} : threads[u].pc = "loop"

\* two callers, each with an image and a flag, both on Pipeline 1
InitShared ==
    /\ FreshPipeline
    /\ call = [op |-> "init"]
    /\ NoComposite
    /\ instances \in { << BuiltPipeline(l) >> : l \in OpLists }
    /\ threads \in { [t \in Threads |-> PendingCall(1, img[t], sv[t])] :
                        img \in [Threads -> Pix], sv \in [Threads -> BOOLEAN] }
    /\ interleaved = FALSE

\* two callers, caller t on Pipeline t
InitOwn ==
    /\ FreshPipeline
    /\ call = [op |-> "init"]
    /\ NoComposite
    /\ instances \in [Threads -> { BuiltPipeline(l) : l \in OpLists }]
    /\ threads \in { [t \in Threads |-> PendingCall(t, img[t], sv[t])] :
                        img \in [Threads -> Pix], sv \in [Threads -> BOOLEAN] }
    /\ interleaved = FALSE

\* a call copies its input and writes snapshot 0
ThreadStart ==
    \E t \in Threads :
       /\ threads[t].pc = "start"
       /\ \E k \in {threads[t].instance} :
          \E r \in {execute_begin(instances[k].snapshots, threads[t].image,
                                  threads[t].save_snapshots)} :
             /\ instances' = self_snapshots(instances, k, r.snapshots)
             /\ threads' =
                   [threads EXCEPT ![t] =
                       [@ EXCEPT
                          !.current = r.current,
                          !.pc = pc_after(0, instances[k].operations),
                          !.ret = IF pc_after(0, instances[k].operations)
                                     = "done"
                                  THEN Some(r.current) ELSE None]]
       /\ interleaved' = (interleaved \/ other_in_flight(t))
       /\ UNCHANGED << pipeline_vars, call, image_vars >>

\* a call runs its next operation and writes the snapshot of its result;
\* after the last operation it returns current_image; an operation that
\* raises ends the call
ThreadStep ==
    \E t \in Threads :
       /\ threads[t].pc = "loop"
       /\ \E k \in {threads[t].instance} :
          \E r \in {execute_step(
                       instances[k].operations[threads[t].i + 1],
                       threads[t].i, threads[t].current,
                       instances[k].snapshots,
                       threads[t].save_snapshots)} :
             /\ instances' = self_snapshots(instances, k, r.snapshots)
             /\ threads' =
                   [threads EXCEPT ![t] =
                       IF r.raised
                       THEN [@ EXCEPT !.pc = "raised"]
                       ELSE [@ EXCEPT
                               !.current = r.current,
                               !.i = @ + 1,
                               !.pc = pc_after(threads[t].i + 1,
                                               instances[k].operations),
                               !.ret = IF pc_after(threads[t].i + 1,
                                                   instances[k].operations)
                                          = "done"
                                       THEN Some(r.current) ELSE None]]
       /\ interleaved' = (interleaved \/ other_in_flight(t))
       /\ UNCHANGED << pipeline_vars, call, image_vars >>

NextThreads == ThreadStart \/ ThreadStep

\* Two execute calls on one Pipeline.
SpecShared == InitShared /\ [][NextThreads]_vars

\* Two execute calls, each on a Pipeline of its own.
SpecOwn == InitOwn /\ [][NextThreads]_vars

\* what execute(image, save_snapshots) gives on a Pipeline with list ops
\* and no snapshots, run with no other caller
alone(ops, image, save_snapshots) ==
    execute(ops, << >>, << image >>, 1, save_snapshots)

finished(t) == threads[t].pc \in {"done", "raised"}

\* C24: two execute(save_snapshots=True) calls on one Pipeline with
\* different inputs: when no step of one call fell between the steps of
\* the other, the map left behind is the map of one of the two calls run
\* alone (the later one); a map that is neither needs an interleaving, and
\* the witness shows that an interleaving reaches one.
C24_SequentialNeverMixes ==
    ( /\ \A t \in Threads : finished(t) /\ threads[t].save_snapshots
      /\ ~interleaved )
    => \E t \in Threads :
          instances[1].snapshots =
             alone(instances[1].operations, threads[t].image, TRUE).snapshots

\* both calls returned, and the map holds snapshot i of the run on the one
\* input and snapshot j of the run on the other, where the runs differ
C24_Witness ==
    /\ \A t \in Threads : threads[t].pc = "done" /\ threads[t].save_snapshots
    /\ threads[1].image # threads[2].image
    /\ interleaved
    /\ LET ops == instances[1].operations
           a == alone(ops, threads[1].image, TRUE).snapshots
           b == alone(ops, threads[2].image, TRUE).snapshots
           s == instances[1].snapshots
       IN /\ \E i \in DOMAIN s : s[i] = a[i] /\ s[i] # b[i]
          /\ \E j \in DOMAIN s : s[j] = b[j] /\ s[j] # a[j]
          /\ s # a
          /\ s # b

\* C25: on separate Pipelines, under every interleaving, a call that has
\* ended has raised or returned just as it does alone, with the same image,
\* and its Pipeline holds the snapshot map the call leaves when run alone.
C25_OwnInstanceIsolated ==
    \A t \in Threads :
       finished(t) =>
          LET r == alone(instances[t].operations, threads[t].image,
                         threads[t].save_snapshots)
          IN /\ (threads[t].pc = "raised") = r.raised
             /\ threads[t].pc = "done" => threads[t].ret = Some(r.heap[r.ref])
             /\ instances[t].snapshots = r.snapshots

\* both calls kept snapshots of different inputs through lists that are not
\* empty, their steps interleaved, and both returned
C25_Witness ==
    /\ \A t \in Threads :
          /\ threads[t].pc = "done"
          /\ threads[t].save_snapshots
          /\ Len(instances[t].operations) > 0
    /\ threads[1].image # threads[2].image
    /\ interleaved

=============================================================================
